---- MODULE Spec2Model ----
(***************************************************************************)
(* Model of watertap/costing/util.py (costing parameter registry) and of   *)
(* watertap/unit_models/anaerobic_digestor.py (ADData.initialize_build).   *)
(***************************************************************************)
EXTENDS Integers, Sequences, FiniteSets, TLC

(***************************************************************************)
(* Bounds of the model.                                                    *)
(***************************************************************************)
MaxCalls == 3
MaxDof == 3
MaxLiqValue == 2
MaxUserSets == 1
MaxApply == 2

(***************************************************************************)
(* Costing parameter registry: universe of packages, names, build rules.   *)
(***************************************************************************)
Packages == {"pkg1", "pkg2"}
BlockNames == {"electricity_cost", "membrane_params"}
BuildRules == {"ruleA", "ruleB"}

\* component(name) returns None when the package has no such component
NoComponent == [kind |-> "None"]
\* _rule is None, or _rule has no _fcn attribute
NoRule == "no_fcn"
NoCall == [kind |-> "NoCall"]
NoError == [type |-> "none"]

RegKeys == Packages \X BlockNames \X BuildRules
PkgNames == Packages \X BlockNames

VARIABLES
    components,   \* costing_package -> name -> component (or NoComponent)
    decorated,    \* wrappers returned by the decorator: <<build_rule, name>>
    regPc,        \* position inside add_costing_parameter_block
    regCall,      \* the call in progress: package, name, build rule
    regError,     \* the error raised by the last finished call (or NoError)
    regOutcome,   \* branch taken by the last call
    nCalls,       \* calls of a wrapper, per <<pkg, name, rule>>
    nFunc,        \* runs of the wrapped func, per <<pkg, name, rule>>
    nRaise,       \* RuntimeErrors, per <<pkg, name, rule>>
    nBuild,       \* invocations of a build rule, per <<pkg, name>>
    nFix,         \* fix_all_vars calls, per <<pkg, name>>
    firstCall,    \* build rule of the first call made for <<pkg, name>>
    nextBlock     \* identity of the next pyo.Block object

regVars == <<components, decorated, regPc, regCall, regError, regOutcome,
             nCalls, nFunc, nRaise, nBuild, nFix, firstCall, nextBlock>>

VARIABLES
    vap_state_vars,     \* state variables of the vapor property package
    liq_out,            \* liquid_phase.properties_out: time -> values
    pc,                 \* position inside initialize_build
    dof,                \* degrees_of_freedom(self) at the call
    vapor_state_args,   \* the argument, then the local variable
    supplied_args,      \* vapor_state_args as the caller passed it
    flags,              \* local variable flags
    issued,             \* flags handed out by liquid_phase.initialize
    held,               \* inlet state currently fixed by hold_state=True
    liqInit,            \* calls of liquid_phase.initialize: hold_state each
    vapInit,            \* calls of vapor_phase.initialize: args, hold_state
    solveLog,           \* result of each solver invocation, in order
    results,            \* local variable results
    released,           \* flags passed to each release_state call, in order
    steps,              \* steps performed, in order
    outcome,            \* how the call ended
    error               \* the exception raised

adVars == <<vap_state_vars, liq_out, pc, dof, vapor_state_args, supplied_args,
            flags, issued, held, liqInit, vapInit, solveLog, results, released,
            steps, outcome, error>>

VARIABLES
    cfg,          \* self.config and what the property packages report
    bPc,          \* position inside build
    bBuilt,       \* names of the components build has added to the unit
    umb,          \* unit_material_balance: <<t, j>> -> constraint
    bError,       \* the exception build raised
    sf,           \* scaling factors set so far, as powers of ten
    conScale,     \* constraint -> factor of its scaling transform
    applied       \* per calculate_scaling_factors call: target -> factor

unitVars == <<cfg, bPc, bBuilt, umb, bError, sf, conScale, applied>>

VARIABLES
    crPc,         \* position inside cost_rectifier
    crArgs,       \* its arguments and the package's base currency
    crVars,       \* variables and expressions on the cost block, by name
    crCons,       \* constraints on the cost block, by name
    crFlows       \* flows registered through costing_package.cost_flow

costVars == <<crPc, crArgs, crVars, crCons, crFlows>>

TotalCalls == LET RECURSIVE Sum(_)
                  Sum(S) == IF S = {} THEN 0
                            ELSE LET k == CHOOSE x \in S : TRUE
                                 IN nCalls[k] + Sum(S \ {k})
              IN Sum(RegKeys)

\* A component that exists on the package before any registration and was
\* not built through the registry: it has no _rule._fcn.
PlainComponent == [kind |-> "component", rule |-> NoRule, block |-> 0,
                   fixed |-> FALSE]

\* pyo.Block(rule=build_rule) attached to the package: the rule is invoked
\* on construction and is recorded as _rule._fcn.  Whether the rule fixed
\* its own variables is up to the rule.
NewBlock(build_rule, id, ruleFixed) ==
    [kind |-> "component", rule |-> build_rule, block |-> id,
     fixed |-> ruleFixed]

\* parameter_block.fix_all_vars()
FixAllVars_Skip(blk) == blk

FixAllVars(blk) == [blk EXCEPT !.fixed = TRUE]

\* text of the RuntimeError of lines 31-34: names neither a rule nor a block
DecoratorError == [type |-> "RuntimeError", package |-> "", blockName |-> "",
                   prevRule |-> "", prevModule |-> ""]

ModuleOf(rule) == "module_of_" \o rule

\* text of the RuntimeError of lines 37-43
ConflictError(pkg, name, other_rule) ==
    [type |-> "RuntimeError", package |-> pkg, blockName |-> name,
     prevRule |-> other_rule, prevModule |-> ModuleOf(other_rule)]

\* line 22: blk.costing_package.component(parameter_block_name)
LookupComponent_Missing(pkg, name) == NoComponent

LookupComponent(pkg, name) == components[pkg][name]

\* lines 28-30: parameter_block._rule is None or not hasattr(_rule, "_fcn")
HasNoFcn_Never(parameter_block) == FALSE

HasNoFcn_Always(parameter_block) == TRUE

HasNoFcn(parameter_block) == parameter_block.rule = NoRule

\* line 35 negated: parameter_block._rule._fcn is build_rule
BuiltBy_Never(parameter_block, build_rule) == FALSE

BuiltBy_Always(parameter_block, build_rule) == TRUE

BuiltBy(parameter_block, build_rule) == parameter_block.rule = build_rule

InitReg ==
    /\ components \in [Packages -> [BlockNames -> {NoComponent, PlainComponent}]]
    /\ decorated = {}
    /\ regPc = "idle"
    /\ regCall = NoCall
    /\ regError = NoError
    /\ regOutcome = "none"
    /\ nCalls = [k \in RegKeys |-> 0]
    /\ nFunc = [k \in RegKeys |-> 0]
    /\ nRaise = [k \in RegKeys |-> 0]
    /\ nBuild = [k \in PkgNames |-> 0]
    /\ nFix = [k \in PkgNames |-> 0]
    /\ firstCall = [k \in PkgNames |-> NoRule]
    /\ nextBlock = 1

\* register_costing_parameter_block(build_rule, name)(func): returns the
\* wrapper and touches no costing package.
register_costing_parameter_block(build_rule, name) ==
    /\ regPc = "idle"
    /\ <<build_rule, name>> \notin decorated
    /\ decorated' = decorated \cup {<<build_rule, name>>}
    /\ UNCHANGED <<components, regPc, regCall, regError, regOutcome, nCalls,
                   nFunc, nRaise, nBuild, nFix, firstCall, nextBlock>>
    /\ UNCHANGED adVars
    /\ UNCHANGED unitVars
    /\ UNCHANGED costVars

\* add_costing_parameter_block(blk, ...), lines 22-44: look the component up
\* and build, reuse or raise.
add_costing_parameter_block(pkg, name, build_rule) ==
    /\ regPc = "idle"
    /\ <<build_rule, name>> \in decorated
    /\ TotalCalls < MaxCalls
    /\ LET parameter_block == LookupComponent(pkg, name)
           key == <<pkg, name, build_rule>>
       IN
       /\ nCalls' = [nCalls EXCEPT ![key] = @ + 1]
       /\ firstCall' = IF firstCall[<<pkg, name>>] = NoRule
                       THEN [firstCall EXCEPT ![<<pkg, name>>] = build_rule]
                       ELSE firstCall
       /\ IF parameter_block = NoComponent
          THEN /\ \E ruleFixed \in BOOLEAN :
                    components' = [components EXCEPT ![pkg][name] =
                        FixAllVars(NewBlock(build_rule, nextBlock, ruleFixed))]
               /\ nextBlock' = nextBlock + 1
               /\ nBuild' = [nBuild EXCEPT ![<<pkg, name>>] = @ + 1]
               /\ nFix' = [nFix EXCEPT ![<<pkg, name>>] = @ + 1]
               /\ regOutcome' = "built"
               /\ regPc' = "func"
               /\ regCall' = [kind |-> "call", pkg |-> pkg, name |-> name,
                              rule |-> build_rule]
               /\ regError' = NoError
               /\ UNCHANGED nRaise
          ELSE IF HasNoFcn(parameter_block)
          THEN /\ regError' = DecoratorError
               /\ regOutcome' = "raised"
               /\ nRaise' = [nRaise EXCEPT ![key] = @ + 1]
               /\ regPc' = "idle"
               /\ regCall' = NoCall
               /\ UNCHANGED <<components, nextBlock, nBuild, nFix>>
          ELSE IF ~BuiltBy(parameter_block, build_rule)
          THEN /\ regError' = ConflictError(pkg, name, parameter_block.rule)
               /\ regOutcome' = "raised"
               /\ nRaise' = [nRaise EXCEPT ![key] = @ + 1]
               /\ regPc' = "idle"
               /\ regCall' = NoCall
               /\ UNCHANGED <<components, nextBlock, nBuild, nFix>>
          ELSE /\ regOutcome' = "reused"
               /\ regPc' = "func"
               /\ regCall' = [kind |-> "call", pkg |-> pkg, name |-> name,
                              rule |-> build_rule]
               /\ regError' = NoError
               /\ UNCHANGED <<components, nextBlock, nBuild, nFix, nRaise>>
    /\ UNCHANGED <<decorated, nFunc>>
    /\ UNCHANGED adVars
    /\ UNCHANGED unitVars
    /\ UNCHANGED costVars

\* line 45: return func(blk, *args, **kwargs)
CallFunc ==
    /\ regPc = "func"
    /\ nFunc' = [nFunc EXCEPT ![<<regCall.pkg, regCall.name, regCall.rule>>] = @ + 1]
    /\ regPc' = "idle"
    /\ regCall' = NoCall
    /\ UNCHANGED <<components, decorated, regError, regOutcome, nCalls, nRaise,
                   nBuild, nFix, firstCall, nextBlock>>
    /\ UNCHANGED adVars
    /\ UNCHANGED unitVars
    /\ UNCHANGED costVars


(***************************************************************************)
(* ADData.initialize_build (anaerobic_digestor.py, lines 908-1025).        *)
(***************************************************************************)
UnitName == "fs.unit"

\* Numbers are held in hundredths: 105 is 1.05, 1300 is 13.
Hundredth == 100
Mul(a, b) == (a * b) \div Hundredth

FlowFactor == 1300
ConcFactor == 100000
ConcFallback == 50
PressureFactor == 105

\* State-variable names are character sequences, so that `"flow" in sv`
\* is a substring test.
Pat_flow == <<"f", "l", "o", "w">>
Pat_conc == <<"c", "o", "n", "c">>
Pat_pressure == <<"p", "r", "e", "s", "s", "u", "r", "e">>
Pat_temperature == <<"t", "e", "m", "p", "e", "r", "a", "t", "u", "r", "e">>
Underscore == <<"_">>

SV_flow_vol == Pat_flow \o Underscore \o <<"v", "o", "l">>
SV_conc_mass_comp == Pat_conc \o Underscore \o <<"m", "a", "s", "s">>
SV_pressure == Pat_pressure
SV_temperature == Pat_temperature
SV_pressure_flow == Pat_pressure \o Underscore \o Pat_flow
SV_conc_pressure == Pat_conc \o Underscore \o Pat_pressure
SV_flow_conc == Pat_flow \o Underscore \o Pat_conc

\* Python's `pat in sv` for strings
Contains(pat, sv) ==
    \E i \in 1..(Len(sv) - Len(pat) + 1) : SubSeq(sv, i, i + Len(pat) - 1) = pat

LiqComponents == {"S_ch4", "S_IC"}
VapComponents == {"S_ch4", "S_co2"}

\* define_state_vars() of the vapor property package: name -> index set
\* (component-indexed for concentrations, {} for a scalar variable)
VaporPackages ==
    { [sv \in {SV_flow_vol, SV_conc_mass_comp, SV_pressure, SV_temperature} |->
          IF sv = SV_conc_mass_comp THEN VapComponents ELSE {}],
      [sv \in {SV_pressure_flow, SV_conc_pressure, SV_flow_conc} |->
          IF sv = SV_conc_pressure THEN VapComponents ELSE {}] }

TimePoints == {0, 1}
\* self.flowsheet().time.first()
TimeLast == CHOOSE t \in TimePoints : \A u \in TimePoints : u <= t

TimeFirst == CHOOSE t \in TimePoints : \A u \in TimePoints : t <= u

LiqValues == {k * Hundredth : k \in 1..MaxLiqValue}

\* a dict entry or a variable value: a number, or a number per component
Num(n) == [num |-> n]
Dict(f) == [dict |-> f]

\* values of the liquid outlet state block for the state variables of a
\* vapor package: a number, or a number per liquid component
LiqStates(vars) ==
    [scalar : [{sv \in DOMAIN vars : vars[sv] = {}} -> LiqValues],
     indexed : [{sv \in DOMAIN vars : vars[sv] # {}} -> [LiqComponents -> LiqValues]]]

\* getattr(liq_state, sv)
GetAttr(liq_state, sv) ==
    IF sv \in DOMAIN liq_state.scalar
    THEN Num(liq_state.scalar[sv])
    ELSE Dict(liq_state.indexed[sv])

\* a liquid outlet whose variables all share one value
UniformLiqState(vars, v) ==
    [scalar |-> [sv \in {n \in DOMAIN vars : vars[n] = {}} |-> v],
     indexed |-> [sv \in {n \in DOMAIN vars : vars[n] # {}} |->
                     [j \in LiqComponents |-> v]]]

None == [is_none |-> TRUE]
NoFlags == "no_flags"
FlagTokens == {"flags1", "flags2"}
SolverResults == {"optimal", "infeasible", "maxIterations"}

\* vapor_state_args a caller may supply
SuppliedArgs ==
    { [is_none |-> FALSE, args |-> <<>>],
      [is_none |-> FALSE, args |-> (SV_pressure :> Num(300))] }

NoError2 == [type |-> "none", unit |-> "", dof |-> 0, text |-> ""]

\* lines 974-992: the entry of vapor_state_args for state variable sv, whose
\* vapor variable has the given indices
GuessFor_PressureFirst(sv, indices, liq_state) ==
    IF Contains(Pat_pressure, sv) /\ indices = {}
    THEN Num(Mul(PressureFactor, GetAttr(liq_state, sv).num))
    ELSE IF Contains(Pat_flow, sv)
    THEN Num(Mul(FlowFactor, GetAttr(liq_state, sv).num))
    ELSE IF Contains(Pat_conc, sv)
    THEN Dict([j \in indices |->
                  IF j \in LiqComponents
                  THEN Mul(ConcFactor, GetAttr(liq_state, sv).dict[j])
                  ELSE ConcFallback])
    ELSE GetAttr(liq_state, sv)

GuessFor(sv, indices, liq_state) ==
    IF Contains(Pat_flow, sv)
    THEN Num(Mul(FlowFactor, GetAttr(liq_state, sv).num))
    ELSE IF Contains(Pat_conc, sv)
    THEN Dict([j \in indices |->
                  IF j \in LiqComponents
                  THEN Mul(ConcFactor, GetAttr(liq_state, sv).dict[j])
                  ELSE ConcFallback])
    ELSE IF Contains(Pat_pressure, sv)
    THEN Num(Mul(PressureFactor, GetAttr(liq_state, sv).num))
    ELSE GetAttr(liq_state, sv)

\* line 967: t_init = self.flowsheet().time.first()
InitTime_Last == TimeLast

InitTime == TimeFirst

\* lines 967-992: vapor_state_args built from the liquid outlet at t_init
BuildVaporGuess(vars, liq) ==
    [is_none |-> FALSE,
     args |-> [sv \in DOMAIN vars |-> GuessFor(sv, vars[sv], liq[InitTime])]]

\* pyomo's check_optimal_termination(results)
check_optimal_termination(r) == r = "optimal"

\* line 941: degrees_of_freedom(self) != 0
DofNonZero_Positive(d) == d > 0

DofNonZero(d) == d # 0

\* line 1008: retry when the first solve did not terminate optimally
NeedsRetry_Never(r) == FALSE

NeedsRetry(r) == ~check_optimal_termination(r)

\* line 1012: results = solverobj.solve(...) replaces the first result
RetryResult_KeepFirst(first, second) == first

RetryResult(first, second) == second

\* line 1019: the flags passed to release_state
ReleaseArg_None(f) == NoFlags

ReleaseArg(f) == f

\* line 999: hold_state of the vapor initialization
VaporHoldState_True == TRUE

VaporHoldState == FALSE

\* lines 942-945
DofError(d) == [type |-> "InitializationError", unit |-> UnitName, dof |-> d,
                text |-> "degrees of freedom were not 0"]

\* lines 1022-1025
FailedError == [type |-> "InitializationError", unit |-> UnitName, dof |-> 0,
                text |-> "failed to initialize successfully"]

\* an exception raised by a collaborator (vapor initializer or solver)
CollaboratorError == [type |-> "Exception", unit |-> "", dof |-> 0,
                      text |-> "raised by collaborator"]

Idle ==
    /\ pc = "idle"
    /\ dof = 0
    /\ vapor_state_args = None
    /\ supplied_args = None
    /\ flags = NoFlags
    /\ issued = NoFlags
    /\ held = FALSE
    /\ liqInit = <<>>
    /\ vapInit = <<>>
    /\ solveLog = <<>>
    /\ results = "none"
    /\ released = <<>>
    /\ steps = <<>>
    /\ outcome = "none"
    /\ error = NoError2

\* the built unit model before initialize_build is called
InitAD ==
    /\ vap_state_vars \in VaporPackages
    /\ \E a \in LiqValues, b \in LiqValues :
          liq_out = [t \in TimePoints |->
                        UniformLiqState(vap_state_vars, IF t = TimeFirst THEN a ELSE b)]
    /\ Idle

\* initialize_build(vapor_state_args=args) is called on a model whose
\* degrees of freedom are d
Call(d, args) ==
    /\ pc = "idle"
    /\ dof' = d
    /\ vapor_state_args' = args
    /\ supplied_args' = args
    /\ pc' = "precheck"
    /\ UNCHANGED <<vap_state_vars, liq_out, flags, issued, held, liqInit,
                   vapInit, solveLog, results, released, steps, outcome, error>>
    /\ UNCHANGED regVars
    /\ UNCHANGED unitVars
    /\ UNCHANGED costVars

\* lines 940-945
Precheck ==
    /\ pc = "precheck"
    /\ steps' = Append(steps, "PRECHECK")
    /\ IF DofNonZero(dof)
       THEN /\ error' = DofError(dof)
            /\ outcome' = "FAILED_PRECHECK"
            /\ pc' = "done"
       ELSE /\ pc' = "liquid_init"
            /\ UNCHANGED <<error, outcome>>
    /\ UNCHANGED <<vap_state_vars, liq_out, dof, vapor_state_args, supplied_args,
                   flags, issued, held, liqInit, vapInit, solveLog, results,
                   released>>
    /\ UNCHANGED regVars
    /\ UNCHANGED unitVars
    /\ UNCHANGED costVars

\* lines 955-966: liquid_phase.initialize(..., hold_state=True) fixes the
\* inlet state and returns the flags
LiquidInit ==
    /\ pc = "liquid_init"
    /\ \E f \in FlagTokens :
          /\ flags' = f
          /\ issued' = f
    /\ held' = TRUE
    /\ liqInit' = Append(liqInit, [hold_state |-> TRUE])
    /\ steps' = Append(steps, "LIQUID_INIT")
    /\ pc' = IF vapor_state_args.is_none THEN "vapor_guess" ELSE "vapor_init"
    /\ UNCHANGED <<vap_state_vars, liq_out, dof, vapor_state_args, supplied_args,
                   vapInit, solveLog, results, released, outcome, error>>
    /\ UNCHANGED regVars
    /\ UNCHANGED unitVars
    /\ UNCHANGED costVars

\* lines 967-992
VaporGuess ==
    /\ pc = "vapor_guess"
    /\ vapor_state_args' = BuildVaporGuess(vap_state_vars, liq_out)
    /\ steps' = Append(steps, "VAPOR_GUESS")
    /\ pc' = "vapor_init"
    /\ UNCHANGED <<vap_state_vars, liq_out, dof, supplied_args, flags, issued,
                   held, liqInit, vapInit, solveLog, results, released, outcome,
                   error>>
    /\ UNCHANGED regVars
    /\ UNCHANGED unitVars
    /\ UNCHANGED costVars

\* lines 994-1000: vapor_phase.initialize(state_args=vapor_state_args,
\* hold_state=False); the collaborator may raise
VaporInit ==
    /\ pc = "vapor_init"
    /\ vapInit' = Append(vapInit, [state_args |-> vapor_state_args,
                                   hold_state |-> VaporHoldState])
    /\ steps' = Append(steps, "VAPOR_INIT")
    /\ \/ /\ pc' = "solve"
          /\ UNCHANGED <<outcome, error>>
       \/ /\ pc' = "done"
          /\ outcome' = "RAISED"
          /\ error' = CollaboratorError
    /\ UNCHANGED <<vap_state_vars, liq_out, dof, vapor_state_args, supplied_args,
                   flags, issued, held, liqInit, solveLog, results, released>>
    /\ UNCHANGED regVars
    /\ UNCHANGED unitVars
    /\ UNCHANGED costVars

\* line 1007: results = solverobj.solve(self); the solver may raise
Solve ==
    /\ pc = "solve"
    /\ steps' = Append(steps, "COUPLED_SOLVE")
    /\ \/ \E r \in SolverResults :
             /\ results' = r
             /\ solveLog' = Append(solveLog, r)
             /\ pc' = IF NeedsRetry(r) THEN "retry" ELSE "release"
             /\ UNCHANGED <<outcome, error>>
       \/ /\ solveLog' = Append(solveLog, "raised")
          /\ pc' = "done"
          /\ outcome' = "RAISED"
          /\ error' = CollaboratorError
          /\ UNCHANGED results
    /\ UNCHANGED <<vap_state_vars, liq_out, dof, vapor_state_args, supplied_args,
                   flags, issued, held, liqInit, vapInit, released>>
    /\ UNCHANGED regVars
    /\ UNCHANGED unitVars
    /\ UNCHANGED costVars

\* lines 1009-1012: one more solve
Retry ==
    /\ pc = "retry"
    /\ \/ \E r \in SolverResults :
             /\ results' = RetryResult(results, r)
             /\ solveLog' = Append(solveLog, r)
             /\ pc' = "release"
             /\ UNCHANGED <<outcome, error>>
       \/ /\ solveLog' = Append(solveLog, "raised")
          /\ pc' = "done"
          /\ outcome' = "RAISED"
          /\ error' = CollaboratorError
          /\ UNCHANGED results
    /\ UNCHANGED <<vap_state_vars, liq_out, dof, vapor_state_args, supplied_args,
                   flags, issued, held, liqInit, vapInit, released, steps>>
    /\ UNCHANGED regVars
    /\ UNCHANGED unitVars
    /\ UNCHANGED costVars

\* line 1019: self.liquid_phase.release_state(flags, outlvl)
Release ==
    /\ pc = "release"
    /\ released' = Append(released, ReleaseArg(flags))
    /\ held' = IF ReleaseArg(flags) = issued THEN FALSE ELSE held
    /\ steps' = Append(steps, "RELEASE")
    /\ pc' = "finish"
    /\ UNCHANGED <<vap_state_vars, liq_out, dof, vapor_state_args, supplied_args,
                   flags, issued, liqInit, vapInit, solveLog, results, outcome,
                   error>>
    /\ UNCHANGED regVars
    /\ UNCHANGED unitVars
    /\ UNCHANGED costVars

\* lines 1021-1025
Finish ==
    /\ pc = "finish"
    /\ IF ~check_optimal_termination(results)
       THEN /\ outcome' = "FAILED"
            /\ error' = FailedError
            /\ steps' = Append(steps, "FAILED")
       ELSE /\ outcome' = "DONE"
            /\ steps' = Append(steps, "DONE")
            /\ UNCHANGED error
    /\ pc' = "done"
    /\ UNCHANGED <<vap_state_vars, liq_out, dof, vapor_state_args, supplied_args,
                   flags, issued, held, liqInit, vapInit, solveLog, results,
                   released>>
    /\ UNCHANGED regVars
    /\ UNCHANGED unitVars
    /\ UNCHANGED costVars

(***************************************************************************)
(* ADData.build (anaerobic_digestor.py, lines 280-789).                    *)
(***************************************************************************)
VapPhaseLists == {<<"Vap">>, <<"Liq">>, <<"Vap", "Liq">>}
LiqPhaseLists == {<<"Liq">>, <<"Liq", "Gas">>, <<"Vap">>}
LiqUniverse == {"S_h2", "S_ch4", "S_IC", "S_su"}
VapUniverse == {"S_h2", "S_ch4", "S_co2", "S_IC"}
\* MaterialFlowBasis
FlowBases == {"molar", "mass", "other"}
\* MomentumBalanceType
MomentumTypes == {"pressureTotal", "none"}
\* reaction_package: a ReactionParameterBlock, or None (the default)
ReactionPackages == {"rxn", "None"}

Configs ==
    [vap_phase_list : VapPhaseLists,
     liq_phase_list : LiqPhaseLists,
     vap_comps : (SUBSET VapUniverse) \ {{}},
     liq_comps : (SUBSET LiqUniverse) \ {{}},
     vap_basis : FlowBases,
     liq_basis : FlowBases,
     has_heat_transfer : BOOLEAN,
     has_pressure_change : BOOLEAN,
     momentum_balance_type : MomentumTypes,
     reaction_package : ReactionPackages]

NoBuildError == [type |-> "none", unit |-> "", cites |-> ""]

ConfigurationError(text) ==
    [type |-> "ConfigurationError", unit |-> UnitName, cites |-> text]

\* an exception of Python itself: a missing key or attribute
PythonError(kind, what) == [type |-> kind, unit |-> "", cites |-> what]

\* line 294: vapor phase_list != ["Vap"]
VaporPhaseBad(c) == c.vap_phase_list # <<"Vap">>

\* line 299: liquid phase_list != ["Liq"]
LiquidPhaseBad_AcceptsFirst(c) ==
    c.liq_phase_list = <<>> \/ c.liq_phase_list[1] # "Liq"

LiquidPhaseBad(c) == c.liq_phase_list # <<"Liq">>

\* lines 306-309: not any(j in vapor component_list for j in liquid list)
NoCommonComponent_NotAll(c) == ~(c.liq_comps \subseteq c.vap_comps)

NoCommonComponent(c) == ~(\E j \in c.liq_comps : j \in c.vap_comps)

\* lines 369-372: the two get_material_flow_basis() differ
FlowBasisDiffers_Never(c) == FALSE

FlowBasisDiffers(c) == c.vap_basis # c.liq_basis

\* lines 406-415: fb, or no fb for a basis that is neither molar nor mass
FlowBasisName(c) ==
    IF c.vap_basis = "molar" THEN "flow_mole"
    ELSE IF c.vap_basis = "mass" THEN "flow_mass"
    ELSE "unsupported"

\* lines 398-401
CommonComps(c) == c.vap_comps \cap c.liq_comps

\* lines 575-594: the constraint rule_material_balance returns for (t, j)
rule_material_balance_CarbonFirst(c, t, j) ==
    IF j = "S_IC"
    THEN [branch |-> "S_IC", lhs |-> <<t, "Liq", j>>,
          rhs |-> [kind |-> "neg_vapor_flow", comp |-> "S_co2", value |-> ""]]
    ELSE IF j \in CommonComps(c)
    THEN [branch |-> "common", lhs |-> <<t, "Liq", j>>,
          rhs |-> [kind |-> "neg_vapor_flow", comp |-> j, value |-> ""]]
    ELSE [branch |-> "liquid_only", lhs |-> <<t, "Liq", j>>,
          rhs |-> [kind |-> "constant", comp |-> FlowBasisName(c),
                   value |-> "1e-8"]]

rule_material_balance(c, t, j) ==
    IF j \in CommonComps(c)
    THEN [branch |-> "common", lhs |-> <<t, "Liq", j>>,
          rhs |-> [kind |-> "neg_vapor_flow", comp |-> j, value |-> ""]]
    ELSE IF j = "S_IC"
    THEN [branch |-> "S_IC", lhs |-> <<t, "Liq", j>>,
          rhs |-> [kind |-> "neg_vapor_flow", comp |-> "S_co2", value |-> ""]]
    ELSE IF j \in c.liq_comps
    THEN [branch |-> "liquid_only", lhs |-> <<t, "Liq", j>>,
          rhs |-> [kind |-> "constant", comp |-> FlowBasisName(c),
                   value |-> "1e-8"]]
    ELSE [branch |-> "none", lhs |-> <<t, "Liq", j>>,
          rhs |-> [kind |-> "none", comp |-> "", value |-> ""]]

\* lines 596-601: Constraint(time, liquid component_list, rule=...)
MaterialBalances(c) ==
    [k \in TimePoints \X c.liq_comps |-> rule_material_balance(c, k[1], k[2])]

\* get_material_flow_terms("Vap", j) needs j among the vapor components
VaporFlowTermsMissing(c) ==
    \E k \in DOMAIN MaterialBalances(c) :
        /\ MaterialBalances(c)[k].rhs.kind = "neg_vapor_flow"
        /\ MaterialBalances(c)[k].rhs.comp \notin c.vap_comps

\* lines 603-667: the species the three transfer rules index by name
TransferLiquidSpecies == {"S_h2", "S_ch4", "S_IC"}
TransferVaporSpecies == {"S_h2", "S_ch4", "S_co2"}

TransferSpeciesMissing(c) ==
    \/ ~(TransferLiquidSpecies \subseteq c.liq_comps)
    \/ ~(TransferVaporSpecies \subseteq c.vap_comps)

\* lines 715-718
WantsPressureBalance_IgnoresOption(c) == c.momentum_balance_type # "none"

WantsPressureBalance(c) ==
    c.has_pressure_change = TRUE /\ c.momentum_balance_type # "none"

\* 10^e is written e: lines 778-789 on the variables indexed by time
SfKeys(name) == {<<name, t>> : t \in TimePoints}

MttKeys(c) == {<<"mass_transfer_term", k[1], k[2]>> : k \in TimePoints \X c.liq_comps}

DefaultFactors ==
    [volume_AD |-> -2,
     volume_vapor |-> -2,
     rate_reaction_generation |-> 4,
     mass_transfer_term |-> 2,
     heat |-> -2,
     rate_reaction_extent |-> 2,
     enthalpy_transfer |-> -4,
     volume |-> -2,
     KH_co2 |-> 2,
     KH_ch4 |-> 3,
     KH_h2 |-> 4,
     electricity_consumption |-> 0]

DefaultScaling(c) ==
    [k \in UNION {SfKeys(name) : name \in DOMAIN DefaultFactors \ {"mass_transfer_term"}}
              \cup MttKeys(c) |->
        DefaultFactors[k[1]]]

Unbuilt ==
    /\ bPc = "start"
    /\ bBuilt = {}
    /\ umb = <<>>
    /\ bError = NoBuildError
    /\ sf = <<>>
    /\ conScale = <<>>
    /\ applied = <<>>

\* the unit block before build runs, for any configuration
InitBuild ==
    /\ cfg \in Configs
    /\ Unbuilt

BuildFails(err) ==
    /\ bError' = err
    /\ bPc' = "done"

\* lines 289-303
CheckPhaseLists ==
    /\ bPc = "start"
    /\ IF VaporPhaseBad(cfg)
       THEN BuildFails(ConfigurationError("single phase named 'Vap'"))
       ELSE IF LiquidPhaseBad(cfg)
       THEN BuildFails(ConfigurationError("single phase named 'Liq'"))
       ELSE bPc' = "common" /\ UNCHANGED bError
    /\ bBuilt' = bBuilt \cup {"scaling_factor"}
    /\ UNCHANGED <<cfg, umb, sf, conScale, applied>>
    /\ UNCHANGED <<regVars, adVars>>
    /\ UNCHANGED costVars

\* lines 305-314
CheckCommonComponents ==
    /\ bPc = "common"
    /\ IF NoCommonComponent(cfg)
       THEN BuildFails(ConfigurationError("common component"))
       ELSE bPc' = "phases" /\ UNCHANGED bError
    /\ UNCHANGED <<cfg, bBuilt, umb, sf, conScale, applied>>
    /\ UNCHANGED <<regVars, adVars>>
    /\ UNCHANGED costVars

\* lines 316-363: the liquid control volume with its balances (line 347
\* passes has_heat_transfer=True, whatever the option), then the vapor
\* state blocks
BuildPhases ==
    /\ bPc = "phases"
    /\ bBuilt' = bBuilt \cup {"liquid_phase", "liquid_phase.heat", "vapor_phase"}
    /\ bPc' = "flow_basis"
    /\ UNCHANGED <<cfg, umb, bError, sf, conScale, applied>>
    /\ UNCHANGED <<regVars, adVars>>
    /\ UNCHANGED costVars

\* lines 365-376
CheckFlowBasis ==
    /\ bPc = "flow_basis"
    /\ IF FlowBasisDiffers(cfg)
       THEN BuildFails(ConfigurationError("same material flow basis"))
       ELSE bPc' = "ports" /\ UNCHANGED bError
    /\ UNCHANGED <<cfg, bBuilt, umb, sf, conScale, applied>>
    /\ UNCHANGED <<regVars, adVars>>
    /\ UNCHANGED costVars

\* lines 378-415: geometry, ports, then fb
AddPortsAndBasis ==
    /\ bPc = "ports"
    /\ bBuilt' = bBuilt \cup {"inlet", "liquid_outlet", "vapor_outlet"}
    /\ IF FlowBasisName(cfg) = "unsupported"
       THEN BuildFails(ConfigurationError("only supports mass or molar"))
       ELSE bPc' = "variables" /\ UNCHANGED bError
    /\ UNCHANGED <<cfg, umb, sf, conScale, applied>>
    /\ UNCHANGED <<regVars, adVars>>
    /\ UNCHANGED costVars

\* lines 417-572: variables, parameters, Henry's law and outlet pressure
AddVariables ==
    /\ bPc = "variables"
    /\ bBuilt' = bBuilt \cup {"volume_liquid", "volume_AD", "volume_vapor", "k_p",
                              "KH_co2", "KH_ch4", "KH_h2", "K_La",
                              "electricity_consumption",
                              "energy_electric_flow_vol_inlet",
                              "CO2_Henrys_law", "Ch4_Henrys_law",
                              "H2_Henrys_law", "outlet_P"}
    /\ bPc' = "material_balance"
    /\ UNCHANGED <<cfg, umb, bError, sf, conScale, applied>>
    /\ UNCHANGED <<regVars, adVars>>
    /\ UNCHANGED costVars

\* lines 574-601
AddMaterialBalances ==
    /\ bPc = "material_balance"
    /\ IF VaporFlowTermsMissing(cfg)
       THEN /\ BuildFails(PythonError("KeyError", "S_co2"))
            /\ UNCHANGED <<umb, bBuilt>>
       ELSE /\ umb' = MaterialBalances(cfg)
            /\ bBuilt' = bBuilt \cup {"unit_material_balance"}
            /\ bPc' = "transfer"
            /\ UNCHANGED bError
    /\ UNCHANGED <<cfg, sf, conScale, applied>>
    /\ UNCHANGED <<regVars, adVars>>
    /\ UNCHANGED costVars

\* lines 603-667: Sh2_conc, Sch4_conc, Sco2_conc
AddTransferConstraints ==
    /\ bPc = "transfer"
    /\ IF TransferSpeciesMissing(cfg)
       THEN /\ BuildFails(PythonError("KeyError", "transfer species"))
            /\ UNCHANGED bBuilt
       ELSE /\ bBuilt' = bBuilt \cup {"Sh2_conc", "Sch4_conc", "Sco2_conc"}
            /\ bPc' = "performance"
            /\ UNCHANGED bError
    /\ UNCHANGED <<cfg, umb, sf, conScale, applied>>
    /\ UNCHANGED <<regVars, adVars>>
    /\ UNCHANGED costVars

\* lines 669-713: flow_vol_vap, ad_total_volume, ad_performance_eqn (which
\* reads config.reaction_package.rate_reaction_idx), temperature equality
AddPerformance ==
    /\ bPc = "performance"
    /\ IF cfg.reaction_package = "None"
       THEN /\ BuildFails(PythonError("AttributeError", "rate_reaction_idx"))
            /\ bBuilt' = bBuilt \cup {"flow_vol_vap", "ad_total_volume"}
       ELSE /\ bBuilt' = bBuilt \cup {"flow_vol_vap", "ad_total_volume",
                                      "ad_performance_eqn",
                                      "unit_temperature_equality"}
            /\ bPc' = "pressure"
            /\ UNCHANGED bError
    /\ UNCHANGED <<cfg, umb, sf, conScale, applied>>
    /\ UNCHANGED <<regVars, adVars>>
    /\ UNCHANGED costVars

\* lines 715-776: the optional pressure balance, the enthalpy balance, the
\* electricity constraint and heat_duty
AddBalances ==
    /\ bPc = "pressure"
    /\ bBuilt' = bBuilt
          \cup (IF WantsPressureBalance(cfg)
                THEN {"deltaP", "unit_pressure_balance"} ELSE {})
          \cup {"unit_enthalpy_balance", "unit_electricity_consumption",
                "heat_duty"}
    /\ bPc' = "scaling"
    /\ UNCHANGED <<cfg, umb, bError, sf, conScale, applied>>
    /\ UNCHANGED <<regVars, adVars>>
    /\ UNCHANGED costVars

\* lines 778-789
SetDefaultScaling ==
    /\ bPc = "scaling"
    /\ sf' = DefaultScaling(cfg)
    /\ bPc' = "done"
    /\ UNCHANGED <<cfg, bBuilt, umb, bError, conScale, applied>>
    /\ UNCHANGED <<regVars, adVars>>
    /\ UNCHANGED costVars

NextBuild ==
    \/ CheckPhaseLists
    \/ CheckCommonComponents
    \/ BuildPhases
    \/ CheckFlowBasis
    \/ AddPortsAndBasis
    \/ AddVariables
    \/ AddMaterialBalances
    \/ AddTransferConstraints
    \/ AddPerformance
    \/ AddBalances
    \/ SetDefaultScaling

(***************************************************************************)
(* ADData.calculate_scaling_factors (anaerobic_digestor.py, lines 811-905) *)
(* on a unit that build has assembled.  A factor 10^e is written e.        *)
(***************************************************************************)
BaseLiquid == {"S_h2", "S_ch4", "S_IC"}
BaseVapor == {"S_h2", "S_ch4", "S_co2"}

\* configurations build assembles without an error
ScaleConfigs ==
    [vap_phase_list : {<<"Vap">>},
     liq_phase_list : {<<"Liq">>},
     vap_comps : {BaseVapor, BaseVapor \cup {"S_IC"}},
     liq_comps : {BaseLiquid, BaseLiquid \cup {"S_su"},
                  BaseLiquid \cup {"S_IP", "S_IN"}},
     vap_basis : {"mass"},
     liq_basis : {"mass"},
     has_heat_transfer : {FALSE},
     has_pressure_change : {FALSE},
     momentum_balance_type : {"pressureTotal"},
     reaction_package : {"rxn"}]

\* the exponents a caller of iscale.set_scaling_factor passes
Exponents == {1, 3}

\* the variables whose factors calculate_scaling_factors reads
UserKeys(c) ==
    SfKeys("flow_vol")
        \cup {<<"conc_mass_comp", k[1], k[2]>> : k \in TimePoints \X BaseLiquid}
        \cup MttKeys(c)

\* the factor stored for a variable, if any
Lookup(s, k) == IF k \in DOMAIN s THEN {s[k]} ELSE {}

\* the variables whose factor is not the one build left
UserChanged(c, s) ==
    {k \in UserKeys(c) :
        Lookup(s, k) # (IF k[1] \in DOMAIN DefaultFactors
                        THEN {DefaultFactors[k[1]]} ELSE {})}

\* iscale.get_scaling_factor(v, default=1)
get_scaling_factor(s, k) == IF k \in DOMAIN s THEN s[k] ELSE 0

\* iscale.constraint_scaling_transform(c, s): the factor the constraint is
\* scaled by afterwards, given the factors of its earlier transforms
constraint_scaling_transform_Compound(prev, s) ==
    IF prev = {} THEN s ELSE s + (CHOOSE e \in prev : TRUE)

constraint_scaling_transform(prev, s) == s

\* lines 820-827
SetLiquidFactors(c, s) ==
    IF "S_IP" \in c.liq_comps
    THEN [k \in SfKeys("heat") |-> -6]
            @@ (<<"conc_mass_comp", 0, "S_IP">> :> -5)
            @@ (<<"conc_mass_comp", 0, "S_IN">> :> -5)
            @@ s
    ELSE s

\* line 840: if j in common_comps
ScalesMaterialBalance_Always(c, j) == TRUE

ScalesMaterialBalance(c, j) == j \in CommonComps(c)

\* lines 829-905: the constraints the function transforms
TargetKeys(c) ==
    SfKeys("flow_vol_vap")
        \cup {<<"unit_material_balance", k[1], k[2]>> :
                 k \in {x \in TimePoints \X c.liq_comps :
                           ScalesMaterialBalance(c, x[2])}}
        \cup SfKeys("unit_temperature_equality")
        \cup SfKeys("unit_enthalpy_balance")
        \cup SfKeys("outlet_P")
        \cup SfKeys("Sh2_conc")
        \cup SfKeys("Sch4_conc")
        \cup SfKeys("Sco2_conc")

\* lines 829-905: the variable whose factor scales constraint k
FactorSource(k) ==
    CASE k[1] = "flow_vol_vap" -> <<"flow_vol", k[2]>>
      [] k[1] = "unit_material_balance" -> <<"mass_transfer_term", k[2], k[3]>>
      [] k[1] = "unit_temperature_equality" -> <<"temperature", k[2]>>
      [] k[1] = "unit_enthalpy_balance" -> <<"enthalpy_transfer", k[2]>>
      [] k[1] = "outlet_P" -> <<"pressure", k[2]>>
      [] k[1] = "Sh2_conc" -> <<"conc_mass_comp", k[2], "S_h2">>
      [] k[1] = "Sch4_conc" -> <<"conc_mass_comp", k[2], "S_ch4">>
      [] k[1] = "Sco2_conc" -> <<"conc_mass_comp", k[2], "S_ch4">>

\* the factor selected for every target, read from the factors s
SelectedFactors(c, s) ==
    [k \in TargetKeys(c) |-> get_scaling_factor(s, FactorSource(k))]

Assembled == bPc = "done" /\ bError = NoBuildError

\* iscale.set_scaling_factor(v, 10^e), called by the user of the unit before
\* the scaling factors are calculated
set_scaling_factor(k, e) ==
    /\ Assembled
    /\ applied = <<>>
    /\ k \in UserKeys(cfg)
    /\ LET changed == UserChanged(cfg, sf)
       IN  k \in changed \/ Cardinality(changed) < MaxUserSets
    /\ sf' = (k :> e) @@ sf
    /\ UNCHANGED <<cfg, bPc, bBuilt, umb, bError, conScale, applied>>
    /\ UNCHANGED <<regVars, adVars>>
    /\ UNCHANGED costVars

\* iscale.unset_scaling_factor(v)
unset_scaling_factor(k) ==
    /\ Assembled
    /\ applied = <<>>
    /\ k \in UserKeys(cfg) \cap DOMAIN sf
    /\ LET changed == UserChanged(cfg, sf)
       IN  k \in changed \/ Cardinality(changed) < MaxUserSets
    /\ sf' = [x \in DOMAIN sf \ {k} |-> sf[x]]
    /\ UNCHANGED <<cfg, bPc, bBuilt, umb, bError, conScale, applied>>
    /\ UNCHANGED <<regVars, adVars>>
    /\ UNCHANGED costVars

\* lines 811-905
calculate_scaling_factors ==
    /\ Assembled
    /\ Len(applied) < MaxApply
    /\ LET s == SetLiquidFactors(cfg, sf)
           selected == SelectedFactors(cfg, s)
       IN  /\ sf' = s
           /\ applied' = Append(applied, selected)
           /\ conScale' =
                 [k \in DOMAIN conScale \cup DOMAIN selected |->
                     IF k \in DOMAIN selected
                     THEN constraint_scaling_transform(Lookup(conScale, k),
                                                       selected[k])
                     ELSE conScale[k]]
    /\ UNCHANGED <<cfg, bPc, bBuilt, umb, bError>>
    /\ UNCHANGED <<regVars, adVars>>
    /\ UNCHANGED costVars

InitScale ==
    /\ cfg \in ScaleConfigs
    /\ Unbuilt

NextScale ==
    \/ CheckPhaseLists
    \/ CheckCommonComponents
    \/ BuildPhases
    \/ CheckFlowBasis
    \/ AddPortsAndBasis
    \/ AddVariables
    \/ AddMaterialBalances
    \/ AddTransferConstraints
    \/ AddPerformance
    \/ AddBalances
    \/ SetDefaultScaling
    \/ \E k \in UserKeys(cfg) : \E e \in Exponents : set_scaling_factor(k, e)
    \/ \E k \in UserKeys(cfg) : unset_scaling_factor(k)
    \/ calculate_scaling_factors

(***************************************************************************)
(* cost_rectifier and make_capital_cost_var (costing/util.py, lines 52-58  *)
(* and 103-164).  Coefficients are held in hundredths.                     *)
(***************************************************************************)
\* power: a quantity with units; the default is 100 kW
PowerArgs == [value : {0, 100, 250000}, units : {"kW", "W"}]
\* ac_dc_conversion_efficiency in hundredths; the default is 0.90
Efficiencies == {50, 90, 100}
\* blk.costing_package.base_currency
BaseCurrencies == {"USD_2021", "USD_2018"}

\* pyo.units.convert(power, to_units=pyo.units.kW): the value in kW
ConvertToKW(power) ==
    IF power.units = "W" THEN power.value \div 1000 ELSE power.value

\* line 137: rectifier_cost_coeff = {0: 508.6, 1: 2810}
rectifier_cost_coeff == (0 :> 50860) @@ (1 :> 281000)

\* lines 53-58
CapitalCostVar(currency) ==
    [kind |-> "Var", domain |-> "NonNegativeReals", units |-> currency,
     fixed |-> FALSE, value |-> 100000 * Hundredth]

\* lines 122-127
AcPowerVar ==
    [kind |-> "Var", domain |-> "NonNegativeReals", units |-> "kW",
     fixed |-> FALSE, value |-> 100 * Hundredth]

\* lines 117-121
EfficiencyExpression(eff) ==
    [kind |-> "Expression", domain |-> "", units |-> "",
     fixed |-> TRUE, value |-> eff]

\* lines 138-143 and 149-150: one coefficient, fixed to its value
CoefficientVar(index) ==
    [kind |-> "Var", domain |-> "Reals", units |-> "dimensionless",
     fixed |-> TRUE, value |-> rectifier_cost_coeff[index]]

\* lines 144-146
CapitalCostRectifierVar(currency) ==
    [kind |-> "Var", domain |-> "Reals", units |-> currency,
     fixed |-> FALSE, value |-> 100 * Hundredth]

\* lines 130-133: ac_power * ac_dc_conversion_efficiency == power in kW
PowerConversion(power) ==
    [lhs |-> "ac_power", times |-> "ac_dc_conversion_efficiency",
     intercept |-> "", slope |-> "", of |-> "",
     rhs |-> ConvertToKW(power), units |-> "kW"]

\* lines 153-161: capital_cost_rectifier ==
\*     convert(USD_2021 * (coeff[1] + coeff[0] * ac_power / kW))
CapitalCostRectifierConstraint(currency) ==
    [lhs |-> "capital_cost_rectifier", times |-> "",
     intercept |-> "rectifier_cost_coeff_1",
     slope |-> "rectifier_cost_coeff_0", of |-> "ac_power",
     rhs |-> 0, units |-> currency]

\* a cost block on which cost_rectifier is about to be called
InitCost ==
    /\ crPc = "start"
    /\ crArgs \in [power : PowerArgs, efficiency : Efficiencies,
                   base_currency : BaseCurrencies]
    /\ crVars = <<>>
    /\ crCons = <<>>
    /\ crFlows = <<>>

\* line 115 with lines 52-58
make_capital_cost_var ==
    /\ crPc = "start"
    /\ crVars' = ("capital_cost" :> CapitalCostVar(crArgs.base_currency)) @@ crVars
    /\ crPc' = "power"
    /\ UNCHANGED <<crArgs, crCons, crFlows>>
    /\ UNCHANGED <<regVars, adVars, unitVars>>

\* lines 116-133
AddPowerConversion ==
    /\ crPc = "power"
    /\ crVars' = ("ac_dc_conversion_efficiency" :>
                      EfficiencyExpression(crArgs.efficiency))
                 @@ ("ac_power" :> AcPowerVar) @@ crVars
    /\ crCons' = ("power_conversion" :> PowerConversion(crArgs.power)) @@ crCons
    /\ crPc' = "capital"
    /\ UNCHANGED <<crArgs, crFlows>>
    /\ UNCHANGED <<regVars, adVars, unitVars>>

\* lines 135-161
AddCapitalCostRectifier ==
    /\ crPc = "capital"
    /\ crVars' = ("rectifier_cost_coeff_0" :> CoefficientVar(0))
                 @@ ("rectifier_cost_coeff_1" :> CoefficientVar(1))
                 @@ ("capital_cost_rectifier" :>
                        CapitalCostRectifierVar(crArgs.base_currency))
                 @@ crVars
    /\ crCons' = ("capital_cost_rectifier_constraint" :>
                     CapitalCostRectifierConstraint(crArgs.base_currency))
                 @@ crCons
    /\ crPc' = "flow"
    /\ UNCHANGED <<crArgs, crFlows>>
    /\ UNCHANGED <<regVars, adVars, unitVars>>

\* line 164: blk.costing_package.cost_flow(blk.ac_power, "electricity")
CostFlow ==
    /\ crPc = "flow"
    /\ crFlows' = Append(crFlows, <<"ac_power", "electricity">>)
    /\ crPc' = "done"
    /\ UNCHANGED <<crArgs, crVars, crCons>>
    /\ UNCHANGED <<regVars, adVars, unitVars>>

NextCost ==
    \/ make_capital_cost_var
    \/ AddPowerConversion
    \/ AddCapitalCostRectifier
    \/ CostFlow

\* No cost block is being costed.
CostParked ==
    /\ crPc = "idle"
    /\ crArgs = [power |-> [value |-> 100, units |-> "kW"], efficiency |-> 90,
                 base_currency |-> "USD_2021"]
    /\ crVars = <<>>
    /\ crCons = <<>>
    /\ crFlows = <<>>

\* The costing registry with no registration made, and the unit model
\* with initialize_build not called: the state each part keeps while the
\* other part runs.
RegParked ==
    /\ components = [p \in Packages |-> [n \in BlockNames |-> NoComponent]]
    /\ decorated = {}
    /\ regPc = "idle"
    /\ regCall = NoCall
    /\ regError = NoError
    /\ regOutcome = "none"
    /\ nCalls = [k \in RegKeys |-> 0]
    /\ nFunc = [k \in RegKeys |-> 0]
    /\ nRaise = [k \in RegKeys |-> 0]
    /\ nBuild = [k \in PkgNames |-> 0]
    /\ nFix = [k \in PkgNames |-> 0]
    /\ firstCall = [k \in PkgNames |-> NoRule]
    /\ nextBlock = 1

ADParked ==
    /\ vap_state_vars = CHOOSE v \in VaporPackages : SV_flow_vol \in DOMAIN v
    /\ liq_out = [t \in TimePoints |-> UniformLiqState(vap_state_vars, Hundredth)]
    /\ Idle

UnitParked ==
    /\ cfg = CHOOSE c \in Configs : TRUE
    /\ Unbuilt

vars == <<regVars, adVars, unitVars, costVars>>

InitSpecReg ==
    /\ ADParked
    /\ CostParked
    /\ UnitParked
    /\ InitReg

NextReg ==
    \/ \E r \in BuildRules, n \in BlockNames : register_costing_parameter_block(r, n)
    \/ \E p \in Packages, n \in BlockNames, r \in BuildRules :
          add_costing_parameter_block(p, n, r)
    \/ CallFunc

SpecReg == InitSpecReg /\ [][NextReg]_vars

InitSpecAD ==
    /\ RegParked
    /\ CostParked
    /\ UnitParked
    /\ InitAD

NextAD ==
    \/ \E d \in (-MaxDof)..MaxDof, args \in {None} \cup SuppliedArgs : Call(d, args)
    \/ Precheck
    \/ LiquidInit
    \/ VaporGuess
    \/ VaporInit
    \/ Solve
    \/ Retry
    \/ Release
    \/ Finish

SpecAD == InitSpecAD /\ [][NextAD]_vars

\* The guess alone: any liquid outlet, at the entry of lines 967-992 of a
\* call made without vapor_state_args.
InitGuess ==
    /\ vap_state_vars \in VaporPackages
    /\ liq_out \in [TimePoints -> LiqStates(vap_state_vars)]
    /\ pc = "vapor_guess"
    /\ dof = 0
    /\ vapor_state_args = None
    /\ supplied_args = None
    /\ \E f \in FlagTokens : flags = f /\ issued = f
    /\ held = TRUE
    /\ liqInit = <<[hold_state |-> TRUE]>>
    /\ vapInit = <<>>
    /\ solveLog = <<>>
    /\ results = "none"
    /\ released = <<>>
    /\ steps = <<"PRECHECK", "LIQUID_INIT">>
    /\ outcome = "none"
    /\ error = NoError2

InitSpecGuess ==
    /\ RegParked
    /\ CostParked
    /\ UnitParked
    /\ InitGuess

NextGuess == VaporGuess

SpecGuess == InitSpecGuess /\ [][NextGuess]_vars

InitSpecBuild ==
    /\ RegParked
    /\ CostParked
    /\ ADParked
    /\ InitBuild

SpecBuild == InitSpecBuild /\ [][NextBuild]_vars

InitSpecScale ==
    /\ RegParked
    /\ CostParked
    /\ ADParked
    /\ InitScale

SpecScale == InitSpecScale /\ [][NextScale]_vars

InitSpecCost ==
    /\ RegParked
    /\ ADParked
    /\ UnitParked
    /\ InitCost

SpecCost == InitSpecCost /\ [][NextCost]_vars

(***************************************************************************)
(* Claims about the costing parameter registry.                            *)
(***************************************************************************)
Registered(pkg, name) ==
    /\ components[pkg][name] # NoComponent
    /\ components[pkg][name].rule # NoRule

InProgress(key) ==
    IF regPc = "func" /\ <<regCall.pkg, regCall.name, regCall.rule>> = key
    THEN 1 ELSE 0

\* the step is a call of the wrapper made for key = <<pkg, name, rule>>
IsCallOf(key) == nCalls'[key] = nCalls[key] + 1

\* C1: N >= 1 calls with one (package, name, build rule) build and fix the
\* parameter block exactly once; none of the calls raises and each of them
\* runs the wrapped function, the first after building and the others after
\* reusing the block.
C1_RegisterOnce ==
    /\ [](\A key \in RegKeys :
            (nCalls[key] >= 1 /\ components[key[1]][key[2]].rule = key[3]) =>
                /\ nBuild[<<key[1], key[2]>>] = 1
                /\ nFix[<<key[1], key[2]>>] = 1
                /\ nRaise[key] = 0
                /\ nFunc[key] = nCalls[key] - InProgress(key))
    /\ [][\A key \in RegKeys :
            (IsCallOf(key) /\ components'[key[1]][key[2]].rule = key[3]) =>
                /\ regPc' = "func"
                /\ regOutcome' = (IF nCalls[key] = 0 THEN "built" ELSE "reused")
                /\ (nCalls[key] >= 1 => UNCHANGED <<components, nBuild, nFix>>)]_vars

C1_Witness ==
    \E key \in RegKeys :
        /\ nCalls[key] = MaxCalls
        /\ nFunc[key] = MaxCalls
        /\ nBuild[<<key[1], key[2]>>] = 1
        /\ regOutcome = "reused"

\* C2: once name X is registered in a package with build rule A, a call that
\* registers X in that package with another build rule raises RuntimeError,
\* and the error names A, the module of A and X.
C2_ConflictRaises ==
    [][\A key \in RegKeys :
          (IsCallOf(key) /\ Registered(key[1], key[2])
              /\ components[key[1]][key[2]].rule # key[3]) =>
                /\ regError'.type = "RuntimeError"
                /\ regError'.prevRule = components[key[1]][key[2]].rule
                /\ regError'.prevModule = ModuleOf(components[key[1]][key[2]].rule)
                /\ regError'.blockName = key[2]
                /\ nRaise'[key] = nRaise[key] + 1
                /\ regPc' = "idle"]_vars

C2_Witness ==
    /\ regOutcome = "raised"
    /\ regError.type = "RuntimeError"
    /\ regError.blockName = "electricity_cost"
    /\ regError.prevRule = "ruleA"
    /\ nRaise[<<"pkg1", "electricity_cost", "ruleB">>] >= 1
    /\ components["pkg1"]["electricity_cost"].rule = "ruleA"

\* C3: whatever calls are made (building, reusing, raising), a registered
\* name keeps the block and the build rule of its first caller: the rule was
\* invoked once, the variables were fixed once, and no later step changes
\* the component.
C3_OneBlockPerName ==
    /\ [](\A k \in PkgNames :
            Registered(k[1], k[2]) =>
                /\ nBuild[k] = 1
                /\ nFix[k] = 1
                /\ components[k[1]][k[2]].rule = firstCall[k]
                /\ components[k[1]][k[2]].fixed)
    /\ [][\A k \in PkgNames :
            components[k[1]][k[2]] # NoComponent =>
                components'[k[1]][k[2]] = components[k[1]][k[2]]]_vars

C3_Witness ==
    \E k \in PkgNames : \E r \in BuildRules :
        /\ Registered(k[1], k[2])
        /\ components[k[1]][k[2]].rule # r
        /\ nRaise[<<k[1], k[2], r>>] >= 1
        /\ nCalls[<<k[1], k[2], components[k[1]][k[2]].rule>>] >= 2
        /\ regPc = "idle"

\* C11 as stated: a call for a name held by a component without _rule._fcn
\* raises RuntimeError, and the error names the origin of the conflicting
\* builder and the block name.
C11_PlainErrorNamesBlock ==
    [][\A key \in RegKeys :
          (IsCallOf(key) /\ components[key[1]][key[2]] = PlainComponent) =>
              /\ regError'.type = "RuntimeError"
              /\ regError'.blockName = key[2]
              /\ regError'.prevModule # ""]_vars

\* C11 amended: a call for a name held by a component whose _rule is None or
\* has no _fcn raises RuntimeError before func runs; the error is the fixed
\* advice to use the decorator and names no package, no builder, no module
\* and no block name.
C11_PlainErrorIsGeneric ==
    [][\A key \in RegKeys :
          (IsCallOf(key) /\ components[key[1]][key[2]] = PlainComponent) =>
              /\ regError'.type = "RuntimeError"
              /\ regError'.blockName = ""
              /\ regError'.package = ""
              /\ regError'.prevRule = ""
              /\ regError'.prevModule = ""
              /\ nRaise'[key] = nRaise[key] + 1
              /\ regPc' = "idle"
              /\ UNCHANGED <<components, nFunc, nBuild, nFix>>]_vars

C11_Witness ==
    /\ regOutcome = "raised"
    /\ regError.type = "RuntimeError"
    /\ regError.blockName = ""
    /\ nRaise[<<"pkg1", "electricity_cost", "ruleA">>] = 1
    /\ components["pkg1"]["electricity_cost"] = PlainComponent

\* C12: when the first call for a name reaches func, the build rule has been
\* invoked once, its block is attached under the name with every variable
\* fixed, and func has not run yet for that call; decorating builds,
\* attaches and fixes nothing.
C12_BuiltBeforeFunc ==
    /\ []((regPc = "func" /\ regOutcome = "built") =>
            LET blk == components[regCall.pkg][regCall.name]
                key == <<regCall.pkg, regCall.name, regCall.rule>>
            IN /\ blk # NoComponent
               /\ blk.rule = regCall.rule
               /\ blk.fixed
               /\ nBuild[<<regCall.pkg, regCall.name>>] = 1
               /\ nFix[<<regCall.pkg, regCall.name>>] = 1
               /\ nCalls[key] = 1
               /\ nFunc[key] = 0)
    /\ [](\A k \in PkgNames :
            (\A r \in BuildRules : nCalls[<<k[1], k[2], r>>] = 0) =>
                (nBuild[k] = 0 /\ nFix[k] = 0 /\ ~Registered(k[1], k[2])))
    /\ [][decorated' # decorated =>
            UNCHANGED <<components, nBuild, nFix, nextBlock, nFunc>>]_vars

C12_Witness ==
    /\ regPc = "func"
    /\ regOutcome = "built"
    /\ components[regCall.pkg][regCall.name].fixed
    /\ nFunc[<<regCall.pkg, regCall.name, regCall.rule>>] = 0
    /\ Cardinality(decorated) = 2
    /\ \E k \in PkgNames : k # <<regCall.pkg, regCall.name>>
                              /\ components[k[1]][k[2]] = NoComponent

\* C24: a call that raises RuntimeError invokes neither the wrapped function
\* nor a build rule and leaves every package's components, their build rules
\* and their fixed status as they were; and a call made with the build rule
\* a block was built by, after such a failure for the same name, reuses the
\* block and goes on to the wrapped function.
C24_FailedCallHasNoEffect ==
    [][\A key \in RegKeys :
          /\ (IsCallOf(key) /\ nRaise'[key] = nRaise[key] + 1) =>
                /\ regError'.type = "RuntimeError"
                /\ components' = components
                /\ nFunc' = nFunc
                /\ nBuild' = nBuild
                /\ nFix' = nFix
                /\ nextBlock' = nextBlock
                /\ regPc' = "idle"
          /\ (IsCallOf(key) /\ Registered(key[1], key[2])
                 /\ components[key[1]][key[2]].rule = key[3]
                 /\ \E r \in BuildRules : nRaise[<<key[1], key[2], r>>] > 0) =>
                /\ regOutcome' = "reused"
                /\ regError' = NoError
                /\ regPc' = "func"
                /\ components' = components]_vars

C24_Witness ==
    /\ regPc = "func"
    /\ regOutcome = "reused"
    /\ nBuild[<<regCall.pkg, regCall.name>>] = 1
    /\ components[regCall.pkg][regCall.name].rule = regCall.rule
    /\ \E r \in BuildRules \ {regCall.rule} :
          /\ nRaise[<<regCall.pkg, regCall.name, r>>] = 1
          /\ nFunc[<<regCall.pkg, regCall.name, r>>] = 0

(***************************************************************************)
(* Claims about ADData.initialize_build.                                   *)
(***************************************************************************)
Last(log) == log[Len(log)]

IsPrefix(a, b) == Len(a) <= Len(b) /\ SubSeq(b, 1, Len(a)) = a

\* the last solver invocation returned a result (it did not raise)
HasFinalResult == solveLog # <<>> /\ Last(solveLog) \in SolverResults

\* C4: once the coupled solve has produced its final result, release_state
\* is called with the flags liquid_phase.initialize returned, whether that
\* result is optimal or not; when it is not, the release comes before
\* InitializationError is raised.
C4_ReleaseOnBothOutcomes ==
    /\ []((pc \in {"finish", "done"} /\ HasFinalResult) =>
             /\ released = <<issued>>
             /\ issued \in FlagTokens
             /\ ~held)
    /\ [][(outcome = "none" /\ outcome' \in {"DONE", "FAILED"}) =>
             (released = <<issued>> /\ ~held)]_vars

C4_Witness ==
    /\ outcome = "FAILED"
    /\ error.type = "InitializationError"
    /\ ~check_optimal_termination(Last(solveLog))
    /\ released = <<issued>>
    /\ issued \in FlagTokens

\* C5: on every exit of initialize_build after liquid_phase.initialize
\* handed out the flags, also when the vapor initialization or a solve
\* raised, release_state has been called exactly once and the inlet state
\* is no longer held.
C5_GuaranteedRelease ==
    (pc = "done" /\ issued # NoFlags) => (Len(released) = 1 /\ ~held)

\* C6: with degrees of freedom other than 0 the call ends in
\* InitializationError reporting that number right after the check: no
\* solver invocation, no liquid initialization (nothing held), no vapor
\* guess and no vapor initialization.
C6_PrecheckFailsFirst ==
    /\ pc = "precheck" => (steps = <<>> /\ solveLog = <<>> /\ liqInit = <<>>)
    /\ (pc \notin {"idle", "precheck"} /\ dof # 0) =>
          /\ pc = "done"
          /\ outcome = "FAILED_PRECHECK"
          /\ error.type = "InitializationError"
          /\ error.dof = dof
          /\ steps = <<"PRECHECK">>
          /\ solveLog = <<>>
          /\ liqInit = <<>>
          /\ vapInit = <<>>
          /\ issued = NoFlags
          /\ ~held
          /\ vapor_state_args = supplied_args

C6_Witness ==
    /\ pc = "done"
    /\ dof = 3
    /\ error.type = "InitializationError"
    /\ error.dof = 3
    /\ solveLog = <<>>

\* C7: the solver is invoked at most twice in a call: once when the phase
\* initializations have passed, and a second time exactly when the first
\* result is not optimal; whatever the second result is, the release step
\* follows.
C7_AtMostTwoSolves ==
    /\ [](/\ Len(solveLog) <= 2
          /\ (pc = "solve" => solveLog = <<>>)
          /\ (Len(solveLog) = 2 =>
                 (solveLog[1] \in SolverResults
                     /\ ~check_optimal_termination(solveLog[1])))
          /\ (pc \in {"release", "finish"} \/ outcome \in {"DONE", "FAILED"}) =>
                 /\ Len(solveLog) >= 1
                 /\ (Len(solveLog) = 2 <=> ~check_optimal_termination(solveLog[1])))
    /\ [][(Len(solveLog') = 2 /\ Len(solveLog) = 1
              /\ Last(solveLog') \in SolverResults) => pc' = "release"]_vars

C7_Witness ==
    /\ Len(solveLog) = 2
    /\ ~check_optimal_termination(solveLog[2])
    /\ Len(released) = 1
    /\ pc = "done"

\* C8: the call returns normally exactly when the last solve (the retry if
\* there was one) terminated optimally; otherwise it raises
\* InitializationError naming the unit.
C8_OutcomeFromLastSolve ==
    /\ (pc = "done" /\ HasFinalResult) =>
          /\ outcome \in {"DONE", "FAILED"}
          /\ (outcome = "DONE" <=> check_optimal_termination(Last(solveLog)))
    /\ outcome = "DONE" => error = NoError2
    /\ outcome = "FAILED" =>
          /\ error.type = "InitializationError"
          /\ error.unit = UnitName
          /\ HasFinalResult

C8_Witness ==
    /\ outcome = "DONE"
    /\ Len(solveLog) = 2
    /\ ~check_optimal_termination(solveLog[1])
    /\ check_optimal_termination(solveLog[2])

\* the order of the steps of a call that passes the check of the degrees of
\* freedom, with or without the vapor guess
ExpectedSteps(guessed, final) ==
    <<"PRECHECK", "LIQUID_INIT">>
        \o (IF guessed THEN <<"VAPOR_GUESS">> ELSE <<>>)
        \o <<"VAPOR_INIT", "COUPLED_SOLVE", "RELEASE", final>>

\* C9: a call that passes the check and in which nothing raises runs
\* LIQUID_INIT (hold) -> VAPOR_GUESS -> VAPOR_INIT (no hold) -> COUPLED_SOLVE
\* -> RELEASE -> DONE or FAILED, each once, VAPOR_GUESS exactly when no
\* vapor_state_args were supplied; supplied vapor_state_args reach the vapor
\* initialization unchanged.
C9_StepOrder ==
    /\ (pc # "idle" /\ outcome # "FAILED_PRECHECK") =>
          IsPrefix(steps, ExpectedSteps(supplied_args.is_none, "DONE"))
              \/ steps = ExpectedSteps(supplied_args.is_none, "FAILED")
    /\ outcome \in {"DONE", "FAILED"} =>
          /\ steps = ExpectedSteps(supplied_args.is_none, outcome)
          /\ liqInit = <<[hold_state |-> TRUE]>>
          /\ Len(vapInit) = 1
          /\ vapInit[1].hold_state = FALSE
          /\ (~supplied_args.is_none => vapInit[1].state_args = supplied_args)
          /\ (supplied_args.is_none => ~vapInit[1].state_args.is_none)

C9_Witness ==
    /\ outcome = "DONE"
    /\ ~supplied_args.is_none
    /\ supplied_args.args # <<>>
    /\ vapInit[1].state_args = supplied_args
    /\ steps = <<"PRECHECK", "LIQUID_INIT", "VAPOR_INIT", "COUPLED_SOLVE",
                 "RELEASE", "DONE">>


\* C10: the guess has one entry per vapor state variable, computed from the
\* liquid outlet at the first time point: 13 x for a name containing "flow";
\* else, for a name containing "conc", per vapor component 1000 x for a
\* liquid component and 0.5 for any other; else 1.05 x for a name containing
\* "pressure"; else the value itself.
C10_VaporGuess ==
    pc = "vapor_init" =>
        /\ ~vapor_state_args.is_none
        /\ DOMAIN vapor_state_args.args = DOMAIN vap_state_vars
        /\ \A sv \in DOMAIN vap_state_vars :
              LET entry == vapor_state_args.args[sv]
                  liq == liq_out[0]
              IN IF Contains(Pat_flow, sv)
                 THEN entry = Num(13 * liq.scalar[sv])
                 ELSE IF Contains(Pat_conc, sv)
                 THEN /\ DOMAIN entry.dict = vap_state_vars[sv]
                      /\ \A j \in vap_state_vars[sv] :
                            IF j \in LiqComponents
                            THEN entry.dict[j] = 1000 * liq.indexed[sv][j]
                            ELSE 2 * entry.dict[j] = Hundredth
                 ELSE IF Contains(Pat_pressure, sv)
                 THEN entry.num * 100 = 105 * liq.scalar[sv]
                 ELSE entry = Num(liq.scalar[sv])

C10_Witness ==
    /\ pc = "vapor_init"
    /\ SV_pressure_flow \in DOMAIN vap_state_vars
    /\ liq_out[0].scalar[SV_pressure_flow] = 200
    /\ liq_out[1].scalar[SV_pressure_flow] = 100
    /\ vapor_state_args.args[SV_pressure_flow] = Num(2600)
    /\ vapor_state_args.args[SV_conc_pressure].dict["S_co2"] = 50
    /\ vapor_state_args.args[SV_conc_pressure].dict["S_ch4"] =
           1000 * liq_out[0].indexed[SV_conc_pressure]["S_ch4"]

(***************************************************************************)
(* Claims about ADData.build.                                              *)
(***************************************************************************)
PhaseListsChecked == bPc # "start"

PhasesValid == cfg.vap_phase_list = <<"Vap">> /\ cfg.liq_phase_list = <<"Liq">>

Shared == cfg.liq_comps \cap cfg.vap_comps

\* C13: once build has checked the phase lists, a liquid phase list other
\* than ["Liq"] or a vapor phase list other than ["Vap"] has raised a
\* ConfigurationError that names the unit and cites the single phase the
\* rejected package must have ('Vap' when the vapor list is wrong, 'Liq'
\* when only the liquid list is), and neither the liquid control volume nor
\* the vapor state blocks exist.
C13_PhaseListsRejected ==
    (PhaseListsChecked /\ ~PhasesValid) =>
        /\ bPc = "done"
        /\ bError.type = "ConfigurationError"
        /\ bError.unit = UnitName
        /\ bError.cites = (IF cfg.vap_phase_list # <<"Vap">>
                           THEN "single phase named 'Vap'"
                           ELSE "single phase named 'Liq'")
        /\ "liquid_phase" \notin bBuilt
        /\ "vapor_phase" \notin bBuilt

C13_Witness ==
    /\ bPc = "done"
    /\ cfg.liq_phase_list = <<"Liq", "Gas">>
    /\ cfg.vap_phase_list = <<"Vap">>
    /\ bError.cites = "single phase named 'Liq'"

\* C14: with valid phase lists, once build is past the common-component
\* check it has raised the ConfigurationError citing "common component"
\* exactly when the two component lists share nothing; with a shared
\* component build went on to construct the phases or is about to.
C14_CommonComponentIff ==
    (PhasesValid /\ bPc \notin {"start", "common"}) =>
        /\ (bError.type = "ConfigurationError"
               /\ bError.cites = "common component") <=> (Shared = {})
        /\ (Shared # {}) => (bPc = "phases" \/ "liquid_phase" \in bBuilt)

C14_Witness ==
    /\ PhasesValid
    /\ Shared = {}
    /\ bPc = "done"
    /\ bError.cites = "common component"

\* C15: when build has ended for a configuration that passed the phase and
\* component checks, different flow bases have raised the ConfigurationError
\* about the same material flow basis and a common basis that is neither
\* molar nor mass the one about mass or molar basis; and whenever build ends
\* without an error both phases use one basis, molar or mass.
C15_FlowBasisChecked ==
    (bPc = "done") =>
        /\ (PhasesValid /\ Shared # {} /\ cfg.vap_basis # cfg.liq_basis) =>
               /\ bError.type = "ConfigurationError"
               /\ bError.cites = "same material flow basis"
        /\ (PhasesValid /\ Shared # {} /\ cfg.vap_basis = cfg.liq_basis
                /\ cfg.vap_basis \notin {"molar", "mass"}) =>
               /\ bError.type = "ConfigurationError"
               /\ bError.cites = "only supports mass or molar"
        /\ (cfg.vap_basis # cfg.liq_basis
                \/ cfg.vap_basis \notin {"molar", "mass"}) =>
               bError.type = "ConfigurationError"
        /\ (bError = NoBuildError) =>
               (cfg.vap_basis = cfg.liq_basis
                    /\ cfg.vap_basis \in {"molar", "mass"})

C15_Witness ==
    /\ bPc = "done"
    /\ PhasesValid
    /\ cfg.vap_basis = "other"
    /\ cfg.liq_basis = "other"
    /\ bError.cites = "only supports mass or molar"

\* C16: build raises nothing but ConfigurationError, whatever the component
\* lists and whether or not a reaction package is configured.
C16_OnlyConfigurationError ==
    bError.type \in {"none", "ConfigurationError"}

C21_PressureBalanceIffOption ==
    Assembled =>
        ({"deltaP", "unit_pressure_balance"} \subseteq bBuilt
            <=> cfg.has_pressure_change = TRUE)

\* C21: a build that completes has added deltaP and the unit-level pressure
\* balance exactly when has_pressure_change is enabled and the momentum
\* balance type is not none; otherwise it has added neither.
C21_PressureBalanceIffOptionAndMomentum ==
    Assembled =>
        /\ (cfg.has_pressure_change = TRUE /\ cfg.momentum_balance_type # "none")
              => {"deltaP", "unit_pressure_balance"} \subseteq bBuilt
        /\ ~(cfg.has_pressure_change = TRUE /\ cfg.momentum_balance_type # "none")
              => {"deltaP", "unit_pressure_balance"} \cap bBuilt = {}

C21_Witness ==
    /\ Assembled
    /\ cfg.has_pressure_change = TRUE
    /\ cfg.momentum_balance_type # "none"
    /\ "unit_pressure_balance" \in bBuilt

\* C22: a build that completes has the heat-transfer term of the liquid
\* energy balance, and the heat duty that refers to it, exactly when the
\* has_heat_transfer option is True.
C22_HeatTransferFollowsOption ==
    Assembled =>
        /\ "liquid_phase.heat" \in bBuilt <=> cfg.has_heat_transfer = TRUE
        /\ "heat_duty" \in bBuilt <=> cfg.has_heat_transfer = TRUE


(***************************************************************************)
(* Claims about ADData.calculate_scaling_factors.                          *)
(***************************************************************************)
Calculated == Len(applied) >= 1

FactorOf(k) == IF k \in DOMAIN sf THEN sf[k] ELSE 0

\* C18: once the scaling factors are calculated, at every time point each
\* of Sh2_conc, Sch4_conc and Sco2_conc is scaled by the factor of the
\* concentration of its own species (1 if unset): hydrogen, methane, and
\* for carbon dioxide the inorganic carbon S_IC the constraint is written on.
C18_TransferScaledBySpecies ==
    Calculated =>
        \A t \in TimePoints :
            /\ conScale[<<"Sh2_conc", t>>] = FactorOf(<<"conc_mass_comp", t, "S_h2">>)
            /\ conScale[<<"Sch4_conc", t>>] = FactorOf(<<"conc_mass_comp", t, "S_ch4">>)
            /\ conScale[<<"Sco2_conc", t>>] \in
                  {FactorOf(<<"conc_mass_comp", t, "S_IC">>),
                   FactorOf(<<"conc_mol_co2", t>>)}

\* C19: once the scaling factors are calculated, the material balance of
\* (t, j) carries a scaling transform exactly when j is in both component
\* lists, and its factor is that of the liquid mass-transfer term of (t, j),
\* 1 if none is set.
C19_OnlyCommonBalancesScaled ==
    Calculated =>
        \A t \in TimePoints : \A j \in cfg.liq_comps :
            /\ <<"unit_material_balance", t, j>> \in DOMAIN conScale
                  <=> (j \in cfg.liq_comps /\ j \in cfg.vap_comps)
            /\ <<"unit_material_balance", t, j>> \in DOMAIN conScale =>
                  conScale[<<"unit_material_balance", t, j>>] =
                      FactorOf(<<"mass_transfer_term", t, j>>)

C19_Witness ==
    /\ Calculated
    /\ "S_su" \in cfg.liq_comps
    /\ "S_IC" \notin cfg.vap_comps
    /\ \E t \in TimePoints :
          /\ <<"mass_transfer_term", t, "S_ch4">> \notin DOMAIN sf
          /\ conScale[<<"unit_material_balance", t, "S_ch4">>] = 0
          /\ conScale[<<"unit_material_balance", 1 - t, "S_ch4">>] = 2

ConstraintsOn(v) == {n \in DOMAIN crCons : crCons[n].lhs = v}

\* C23: after cost_rectifier the capital_cost variable declared by
\* make_capital_cost_var is constrained to intercept + slope * ac_power with
\* intercept 2810 and slope 508.6, ac_power times the conversion efficiency
\* equals the power in kW, and ac_power is registered exactly once as an
\* electricity flow.
C23_CapitalCostCorrelation ==
    (crPc = "done") =>
        /\ \E n \in ConstraintsOn("capital_cost") :
              /\ crVars[crCons[n].intercept].value = 281000
              /\ crVars[crCons[n].intercept].fixed
              /\ crVars[crCons[n].slope].value = 50860
              /\ crVars[crCons[n].slope].fixed
              /\ crCons[n].of = "ac_power"
        /\ \E n \in ConstraintsOn("ac_power") :
              /\ crCons[n].times = "ac_dc_conversion_efficiency"
              /\ crVars["ac_dc_conversion_efficiency"].value = crArgs.efficiency
              /\ crCons[n].rhs = ConvertToKW(crArgs.power)
        /\ crFlows = << <<"ac_power", "electricity">> >>

====
